---- MODULE Spec2Model ----
(***************************************************************************)
(* The tiered batch pipeline of the WTI data repository: the timestamped   *)
(* snapshot writer, the latest-snapshot resolver and readers, the weekly   *)
(* alignment transform, the gold feature transforms, the orchestrating     *)
(* scripts, the source adapter, the sink loader and the sessions of the    *)
(* read API.                                                               *)
(*                                                                         *)
(* Data representation.  A cell of a data frame is a record [k, n, d]:     *)
(*   k = "str"      a Python str holding the decimal literal of n          *)
(*   k = "num"      the number n / d                                       *)
(*   k = "inf"      a float that is not finite (a division by zero)        *)
(*   k = "nan"      NaN, the no-value marker of a numeric column           *)
(*   k = "datestr"  a Python str holding the ISO date of day n             *)
(*   k = "badstr"   a str that is no date                                  *)
(*   k = "datetime" a datetime64 at midnight of day n                      *)
(*   k = "nat"      NaT, the no-value marker of a datetime column          *)
(*   k = "text"     a csv field holding the text of a number n / d         *)
(*   k = "textdate" a csv field holding the text of day n                  *)
(*   k = "empty"    an empty csv field                                     *)
(*   k = "ts"       a UTC timestamp at second n (the ingested_at column)   *)
(*   k = "name"     a str that is an identifier (series_id, source_type)   *)
(*   k = "std"      the standard deviation of the window n, divisor d      *)
(* Days are counted from Monday 2024-01-01 (day 0), so day x falls on      *)
(* weekday x % 7 with Monday = 0 and Friday = 4, as pandas counts them.    *)
(* A data frame is a sequence of rows; a row is a record of cells.         *)
(***************************************************************************)
EXTENDS Integers, Sequences, FiniteSets, TLC

VARIABLES
  clock,    \* the UTC wall clock, in whole seconds
  fs,       \* the snapshot directory tree: table location -> set of files
  hist,     \* history: table location -> every snapshot a write has produced
  nwrites,  \* history: table location -> number of writes that returned a path
  runs,     \* number of script runs so far
  op,       \* the last operation: its name, its inputs and its outcome
  resolved, \* history: table location -> what _latest_file returned last
  sessions  \* the API's requests: how far each is and what its session did

vars == <<clock, fs, hist, nwrites, runs, op, resolved, sessions>>

(***************************************************************************)
(* Bounds of the model.                                                    *)
(***************************************************************************)
MaxTicks == 2       \* the clock advances at most this many seconds
MaxRuns == 4        \* script runs in one behaviour

\* The first instant of a behaviour, in seconds: 58 s into a minute, so that
\* the seconds field of an identifier wraps within MaxTicks.
ClockStart == 58

(***************************************************************************)
(* Cells.                                                                  *)
(***************************************************************************)
Cell(k, n) == [k |-> k, n |-> n, d |-> 1]
Frac(n, d) == [k |-> "num", n |-> n, d |-> d]
NaN == Cell("nan", 0)
NaT == Cell("nat", 0)
Inf == Cell("inf", 0)
Str(n) == Cell("str", n)
Num(n) == Cell("num", n)
DateStr(x) == Cell("datestr", x)
BadStr == Cell("badstr", 0)
Datetime(x) == Cell("datetime", x)

FRIDAY == 4
Weekday(x) == x % 7

(***************************************************************************)
(* Snapshot identifiers: strftime("%Y%m%dT%H%M%SZ") of a UTC instant.  An  *)
(* instant is a number of whole seconds since 2024-01-01T00:00:00Z; a      *)
(* str is the sequence of the code points of its characters.               *)
(***************************************************************************)
EPOCH_YEAR == 2024

IsLeap(y) == (y % 4 = 0 /\ y % 100 # 0) \/ y % 400 = 0
DaysInYear(y) == IF IsLeap(y) THEN 366 ELSE 365
DaysInMonth(y, m) ==
  CASE m = 2 -> (IF IsLeap(y) THEN 29 ELSE 28)
    [] m \in {4, 6, 9, 11} -> 30
    [] OTHER -> 31

\* The year of the day that lies `days` days after 1 January of year y, and
\* the day's position in that year.
RECURSIVE YearAndDay(_, _)
YearAndDay(y, days) ==
  IF days < DaysInYear(y) THEN [year |-> y, day |-> days]
  ELSE YearAndDay(y + 1, days - DaysInYear(y))

\* The month and the day of the month of the day at position `day` counted
\* from the first day of month m of year y.
RECURSIVE MonthAndDay(_, _, _)
MonthAndDay(y, m, day) ==
  IF day < DaysInMonth(y, m) THEN [month |-> m, day |-> day + 1]
  ELSE MonthAndDay(y, m + 1, day - DaysInMonth(y, m))

\* The code point of a decimal digit; a field zero-padded to two or four digits.
Digit(n) == 48 + n
Pad2(n) == <<Digit(n \div 10), Digit(n % 10)>>
Pad4(n) == Pad2(n \div 100) \o Pad2(n % 100)

\* strftime("%Y%m%dT%H%M%-SZ"): the seconds field without its padding.
StrftimeUnpadded(t) ==
  LET yd == YearAndDay(EPOCH_YEAR, t \div 86400)
      md == MonthAndDay(yd.year, 1, yd.day)
      ss == t % 60
  IN  Pad4(yd.year) \o Pad2(md.month) \o Pad2(md.day) \o <<84>>
        \o Pad2((t \div 3600) % 24) \o Pad2((t \div 60) % 60)
        \o (IF ss < 10 THEN <<Digit(ss)>> ELSE Pad2(ss)) \o <<90>>

\* 84 and 90 are the code points of "T" and "Z".
Strftime(t) ==
  LET yd == YearAndDay(EPOCH_YEAR, t \div 86400)
      md == MonthAndDay(yd.year, 1, yd.day)
  IN  Pad4(yd.year) \o Pad2(md.month) \o Pad2(md.day) \o <<84>>
        \o Pad2((t \div 3600) % 24) \o Pad2((t \div 60) % 60) \o Pad2(t % 60)
        \o <<90>>

\* Python's order on str: by code point, a proper prefix before the longer str.
RECURSIVE StrLess(_, _)
StrLess(a, b) ==
  IF a = <<>> THEN b # <<>>
  ELSE IF b = <<>> THEN FALSE
  ELSE IF Head(a) # Head(b) THEN Head(a) < Head(b)
  ELSE StrLess(Tail(a), Tail(b))

\* sorted(paths): the paths of one directory with one suffix, ascending by name.
RECURSIVE Sorted(_)
Sorted(files) ==
  IF files = {} THEN <<>>
  ELSE LET least == CHOOSE f \in files : \A g \in files \ {f} : StrLess(f.id, g.id)
       IN  <<least>> \o Sorted(files \ {least})

\* table_dir.glob("*"): every file of the directory, whatever its suffix.
GlobAnySuffix(dir, ext) == dir

\* table_dir.glob("*.ext"); a directory that does not exist lists nothing, like
\* an empty one, and both are the empty set of files.
Glob(dir, ext) == {f \in dir : f.ext = ext}

NoFile == [id |-> <<>>, ext |-> "", data |-> <<>>]

\* _latest_file without its check for an empty listing.
LatestFileNoRaise(dir) ==
  LET pq == Sorted(Glob(dir, "parquet"))
      files == IF pq # <<>> THEN pq ELSE Sorted(Glob(dir, "csv"))
  IN  [ok |-> TRUE, err |-> "",
       file |-> IF files = <<>> THEN NoFile ELSE files[Len(files)]]

(***************************************************************************)
(* _latest_file: the parquet files if there is one, otherwise the csv      *)
(* files; the last of them in sorted order; FileNotFoundError if none.     *)
(***************************************************************************)
LatestFile(dir) ==
  LET pq == Sorted(Glob(dir, "parquet"))
      files == IF pq # <<>> THEN pq ELSE Sorted(Glob(dir, "csv"))
  IN  IF files = <<>>
      THEN [ok |-> FALSE, err |-> "FileNotFoundError", file |-> NoFile]
      ELSE [ok |-> TRUE, err |-> "", file |-> files[Len(files)]]

(***************************************************************************)
(* Serialization.  DataFrame.to_parquet keeps every column's type;         *)
(* DataFrame.to_csv writes every cell as text and pandas.read_csv infers   *)
(* the types again: numeric text becomes a number, everything else a str.  *)
(***************************************************************************)
CsvField(c) ==
  CASE c.k \in {"str", "num", "text"} -> [k |-> "text", n |-> c.n, d |-> c.d]
    [] c.k \in {"datestr", "datetime", "textdate"} -> Cell("textdate", c.n)
    [] c.k \in {"nan", "nat", "empty"} -> Cell("empty", 0)
    [] OTHER -> c

CsvParse(c) ==
  CASE c.k = "text" -> Frac(c.n, c.d)
    [] c.k = "textdate" -> DateStr(c.n)
    [] c.k = "empty" -> NaN
    [] c.k = "ts" -> Cell("tsstr", c.n)
    [] OTHER -> c

ToParquet(df) == df
ReadParquet(data) == data
ToCsv(df) == [i \in DOMAIN df |-> [col \in DOMAIN df[i] |-> CsvField(df[i][col])]]
ReadCsv(data) == [i \in DOMAIN data |-> [col \in DOMAIN data[i] |-> CsvParse(data[i][col])]]

\* Writing path: a file of that name is created or replaced.
PutFile(dir, id, ext, data) ==
  {f \in dir : ~(f.id = id /\ f.ext = ext)} \cup {[id |-> id, ext |-> ext, data |-> data]}

(***************************************************************************)
(* The storage layout.                                                     *)
(***************************************************************************)
Tables == {"prices", "supply", "storage"}
BronzeTable(t) == "bronze_eia_" \o t
SilverTable(t) == "silver_eia_" \o t
GoldTable(t) == "gold_eia_" \o t
BronzeLoc(t) == "data/bronze/" \o BronzeTable(t)
SilverLoc(t) == "data/silver/" \o SilverTable(t)
GoldLoc(t) == "data/gold/" \o GoldTable(t)
\* The directories the sink loader reads: gold_root / "gold_prices" and so on.
SinkLoc(t) == "data/gold/gold_" \o t
Locations ==
  {BronzeLoc(t) : t \in Tables} \cup {SilverLoc(t) : t \in Tables}
    \cup {GoldLoc(t) : t \in Tables} \cup {SinkLoc(t) : t \in Tables}

NoPath == [loc |-> "", id |-> <<>>, ext |-> ""]
Path(loc, id, ext) == [loc |-> loc, id |-> id, ext |-> ext]

(***************************************************************************)
(* write_bronze(df, table_name): the identifier is the time of the first   *)
(* utcnow(), the ingested_at column the time of the second; the parquet    *)
(* write is tried first.  When it raises, the handler calls df_to_csv, a   *)
(* name that is not defined, so the handler raises NameError and no file   *)
(* is written.  The result is the directory afterwards and what the call   *)
(* returned or raised.                                                     *)
(***************************************************************************)
\* write_bronze that empties the table directory before it writes.
WriteBronzeOverwrite(dir, loc, df, now, stamped, parquetWorks) ==
  LET timestamp == Strftime(now)
      out == [i \in DOMAIN df |->
                [col \in DOMAIN df[i] \cup {"ingested_at"} |->
                   IF col = "ingested_at" THEN Cell("ts", stamped) ELSE df[i][col]]]
  IN  IF parquetWorks
      THEN [dir |-> PutFile({}, timestamp, "parquet", ToParquet(out)),
            ok |-> TRUE, err |-> "",
            path |-> Path(loc, timestamp, "parquet"), fmt |-> "parquet", df |-> out]
      ELSE [dir |-> {}, ok |-> FALSE, err |-> "NameError",
            path |-> NoPath, fmt |-> "", df |-> out]

WriteBronze(dir, loc, df, now, stamped, parquetWorks) ==
  LET timestamp == Strftime(now)
      out == [i \in DOMAIN df |->
                [col \in DOMAIN df[i] \cup {"ingested_at"} |->
                   IF col = "ingested_at" THEN Cell("ts", stamped) ELSE df[i][col]]]
  IN  IF parquetWorks
      THEN [dir |-> PutFile(dir, timestamp, "parquet", ToParquet(out)),
            ok |-> TRUE, err |-> "",
            path |-> Path(loc, timestamp, "parquet"), fmt |-> "parquet", df |-> out]
      ELSE [dir |-> dir, ok |-> FALSE, err |-> "NameError",
            path |-> NoPath, fmt |-> "", df |-> out]

(***************************************************************************)
(* The source adapter.                                                     *)
(***************************************************************************)
SeriesId(t) ==
  CASE t = "prices" -> "PET.RWTC.D"
    [] t = "supply" -> "PET.MCRFPUS2.W"
    [] t = "storage" -> "PET.WCESTUS1.W"

Name(s) == [k |-> "name", n |-> s, d |-> 1]

\* The series a provider response may hold for each request: [date, value]
\* pairs, newest first; values as JSON strings or JSON numbers.
Series(t) ==
  CASE t = "prices" ->
         { [series_id |-> Name(SeriesId(t)),
            data |-> << <<DateStr(11), Str(110)>>, <<DateStr(4), Str(100)>> >>],
           [series_id |-> Name(SeriesId(t)),
            data |-> << <<DateStr(11), Num(121)>>, <<DateStr(8), Num(110)>>,
                        <<DateStr(4), Num(100)>> >>] }
    [] t = "supply" ->
         { [series_id |-> Name(SeriesId(t)),
            data |-> << <<DateStr(18), Num(13)>>, <<DateStr(4), Num(12)>> >>] }
    [] t = "storage" ->
         { [series_id |-> Name(SeriesId(t)),
            data |-> << <<DateStr(11), Num(430)>>, <<DateStr(4), Num(440)>> >>] }

\* What the provider answers: a transport fault, or a payload with a list of series.
Responses(t) ==
  {[fault |-> TRUE, series |-> <<>>], [fault |-> FALSE, series |-> <<>>]}
    \cup {[fault |-> FALSE, series |-> <<s>>] : s \in Series(t)}

\* The EIA_API_KEY environment variable: unset, empty or set.
EnvKeys == {"unset", "", "key"}

NoSeries == [series_id |-> Name(""), data |-> <<>>]

\* os.getenv("EIA_API_KEY"): None when the variable is unset.
Getenv(env) == IF env = "unset" THEN "None" ELSE env

\* The api_key argument: None (the default), an empty str or a key.
ApiKeys == {"None", "", "key"}

\* fetch_series that refuses only a key that is None.
FetchSeriesNoneOnly(api_key0, env, response) ==
  LET api_key == IF api_key0 = "None" THEN Getenv(env) ELSE api_key0
  IN  IF api_key = "None"
      THEN [ok |-> FALSE, err |-> "ValueError: EIA_API_KEY is required",
            sent |-> FALSE, series |-> NoSeries]
      ELSE IF response.fault
      THEN [ok |-> FALSE, err |-> "URLError", sent |-> TRUE, series |-> NoSeries]
      ELSE IF response.series = <<>>
      THEN [ok |-> FALSE, err |-> "ValueError: No series data returned",
            sent |-> TRUE, series |-> NoSeries]
      ELSE [ok |-> TRUE, err |-> "", sent |-> TRUE, series |-> response.series[1]]

\* fetch_series(series_id, api_key): the environment is looked up when the
\* argument is None; a key that is None or empty raises before the request;
\* sent tells whether a request went out.
FetchSeries(api_key0, env, response) ==
  LET api_key == IF api_key0 = "None" THEN Getenv(env) ELSE api_key0
  IN  IF api_key \in {"None", ""}
      THEN [ok |-> FALSE, err |-> "ValueError: EIA_API_KEY is required",
            sent |-> FALSE, series |-> NoSeries]
      ELSE IF response.fault
      THEN [ok |-> FALSE, err |-> "URLError", sent |-> TRUE, series |-> NoSeries]
      ELSE IF response.series = <<>>
      THEN [ok |-> FALSE, err |-> "ValueError: No series data returned",
            sent |-> TRUE, series |-> NoSeries]
      ELSE [ok |-> TRUE, err |-> "", sent |-> TRUE, series |-> response.series[1]]

\* pd.to_datetime(..., errors="coerce")
ToDatetimeCoerce(c) ==
  IF c.k \in {"datestr", "datetime"} THEN Datetime(c.n) ELSE NaT

\* series_to_frame(series): columns date, series_id, value; value is left as it came.
SeriesToFrame(series) ==
  [i \in DOMAIN series.data |->
     [date |-> ToDatetimeCoerce(series.data[i][1]),
      series_id |-> series.series_id,
      value |-> series.data[i][2]]]

\* load_prices / load_supply / load_storage: the frame plus a source_type column.
Load(t, series) ==
  LET df == SeriesToFrame(series)
  IN  [i \in DOMAIN df |->
         [col \in DOMAIN df[i] \cup {"source_type"} |->
            IF col = "source_type" THEN Name(t) ELSE df[i][col]]]

(***************************************************************************)
(* Readers: _read_bronze and _read_silver resolve the latest file and read *)
(* it by its suffix.                                                       *)
(***************************************************************************)
NoFrame == <<>>

ReadLatest(dir) ==
  LET latest == LatestFile(dir)
  IN  IF ~latest.ok THEN [ok |-> FALSE, err |-> latest.err, df |-> NoFrame]
      ELSE IF latest.file.ext = "parquet"
      THEN [ok |-> TRUE, err |-> "", df |-> ReadParquet(latest.file.data)]
      ELSE [ok |-> TRUE, err |-> "", df |-> ReadCsv(latest.file.data)]

ReadBronze(tree, t) == ReadLatest(tree[BronzeLoc(t)])
ReadSilver(tree, t) == ReadLatest(tree[SilverLoc(t)])

\* Path.suffix: the last dot of the name and what follows it.
Suffix(file) == "." \o file.ext

\* _read_gold of the sink loader: the suffix is compared with "*.parquet", which
\* no suffix equals, so every file goes to read_csv; read_csv raises on the
\* bytes of a parquet file.
ReadGold(tree, t) ==
  LET latest == LatestFile(tree[SinkLoc(t)])
  IN  IF ~latest.ok THEN [ok |-> FALSE, err |-> latest.err, df |-> NoFrame]
      ELSE IF Suffix(latest.file) = "*.parquet"
      THEN [ok |-> TRUE, err |-> "", df |-> ReadParquet(latest.file.data)]
      ELSE IF latest.file.ext = "parquet"
      THEN [ok |-> FALSE, err |-> "read_csv raised", df |-> NoFrame]
      ELSE [ok |-> TRUE, err |-> "", df |-> ReadCsv(latest.file.data)]

(***************************************************************************)
(* _align_weekly: to_datetime, sort_values, set_index,                     *)
(* resample("W-FRI").ffill(), reset_index.                                 *)
(***************************************************************************)
\* pd.to_datetime(column) without errors="coerce": a str that is no date raises.
Parseable(c) == c.k \in {"datestr", "datetime", "nat"}
ToDatetime(c) == IF c.k \in {"datestr", "datetime"} THEN Datetime(c.n) ELSE NaT

\* sort_values("date"): ascending by date; rows of one date keep their order.
RECURSIVE SortRows(_, _)
SortRows(df, left) ==
  IF left = {} THEN <<>>
  ELSE LET i == CHOOSE a \in left :
                  \A b \in left \ {a} :
                    \/ df[a].date.n < df[b].date.n
                    \/ df[a].date.n = df[b].date.n /\ a < b
       IN  <<df[i]>> \o SortRows(df, left \ {i})

SortValues(df) == SortRows(df, DOMAIN df)

\* ts - Week(weekday=4) and ts + Week(weekday=4): an anchored week moves a day
\* that is not a Friday to the nearest Friday in that direction, a Friday by 7 days.
MinusWeek(x) ==
  IF Weekday(x) = FRIDAY THEN x - 7 ELSE x - ((Weekday(x) - FRIDAY) % 7)
PlusWeek(x) ==
  IF Weekday(x) = FRIDAY THEN x + 7 ELSE x + ((FRIDAY - Weekday(x)) % 7)

\* date_range(start, end, freq="W-FRI") for start and end on Fridays.
DateRange(first, last) == [j \in 1..((last - first) \div 7 + 1) |-> first + 7 * (j - 1)]

\* _get_time_bins with _adjust_bin_edges: the edges run from min - freq to
\* max + freq; the right edges are moved to the last instant of their day and
\* the last one is dropped when the one before it is already past the last
\* observation.
Binner(lo, hi) ==
  LET edges == DateRange(MinusWeek(lo), PlusWeek(hi))
  IN  IF edges[Len(edges) - 1] + 1 > hi THEN SubSeq(edges, 1, Len(edges) - 1) ELSE edges

\* _adjust_binner_for_upsample with closed = "right": the labels are the right edges.
UpsampleIndex(lo, hi) == Tail(Binner(lo, hi))

Dates(df) == {df[i].date.n : i \in DOMAIN df}
MinOf(S) == CHOOSE x \in S : \A y \in S : x <= y
MaxOf(S) == CHOOSE x \in S : \A y \in S : y <= x

\* reindex with method="bfill": for each label the first row dated on or after it.
BfillRow(df, label) ==
  LET at == {i \in DOMAIN df : df[i].date.n >= label}
  IN  IF at = {}
      THEN [col \in DOMAIN df[1] |-> IF col = "date" THEN Datetime(label) ELSE NaN]
      ELSE [df[CHOOSE i \in at : \A h \in at : i <= h] EXCEPT !.date = Datetime(label)]

\* reindex(labels, method="ffill") on a sorted frame: for each label the last
\* row dated on or before it, with the label as its date.
FfillRow(df, label) ==
  LET at == {i \in DOMAIN df : df[i].date.n <= label}
  IN  IF at = {}
      THEN [col \in DOMAIN df[1] |-> IF col = "date" THEN Datetime(label) ELSE NaN]
      ELSE [df[MaxOf(at)] EXCEPT !.date = Datetime(label)]

Reindex(df, labels) == [j \in DOMAIN labels |-> FfillRow(df, labels[j])]

\* _upsample: when the index already has the frequency of the grid (pandas infers
\* a frequency from three or more evenly spaced dates) and as many rows as the
\* grid, the rows are kept and relabelled; otherwise the frame is reindexed.
EqualSampling(df, labels) ==
  /\ Len(df) >= 3
  /\ Len(df) = Len(labels)
  /\ \A i \in DOMAIN df : Weekday(df[i].date.n) = FRIDAY
  /\ \A i \in 1..(Len(df) - 1) : df[i + 1].date.n = df[i].date.n + 7

Upsample(df, labels) ==
  IF EqualSampling(df, labels)
  THEN [j \in DOMAIN df |-> [df[j] EXCEPT !.date = Datetime(labels[j])]]
  ELSE Reindex(df, labels)

AlignWeekly(df0) ==
  IF \E i \in DOMAIN df0 : ~Parseable(df0[i].date)
  THEN [ok |-> FALSE, err |-> "ValueError: date", df |-> NoFrame]
  ELSE LET df == SortValues([i \in DOMAIN df0 |->
                               [df0[i] EXCEPT !.date = ToDatetime(df0[i].date)]])
       IN  IF df = <<>> THEN [ok |-> TRUE, err |-> "", df |-> NoFrame]
           ELSE IF Cardinality(Dates(df)) < Len(df)
           THEN [ok |-> FALSE, err |-> "ValueError: duplicate labels", df |-> NoFrame]
           ELSE [ok |-> TRUE, err |-> "",
                 df |-> Upsample(df, UpsampleIndex(MinOf(Dates(df)), MaxOf(Dates(df))))]

\* _write_silver / _write_gold: one parquet file named by the time of the call;
\* to_parquet raising is not handled.
WriteParquet(dir, loc, df, now, parquetWorks) ==
  LET timestamp == Strftime(now)
  IN  IF parquetWorks
      THEN [dir |-> PutFile(dir, timestamp, "parquet", ToParquet(df)),
            ok |-> TRUE, err |-> "",
            path |-> Path(loc, timestamp, "parquet"), fmt |-> "parquet", df |-> df]
      ELSE [dir |-> dir, ok |-> FALSE, err |-> "ImportError",
            path |-> NoPath, fmt |-> "", df |-> df]

(***************************************************************************)
(* Gold features.  Arithmetic on cells: numbers are fractions n / d, a     *)
(* division by zero gives a float that is not finite, an operand that is   *)
(* not a number makes the whole column operation raise TypeError.          *)
(***************************************************************************)
IsNumber(c) == c.k \in {"num", "inf", "nan"}
Finite(c) == c.k = "num"

Div(a, b) ==
  IF ~Finite(a) \/ ~Finite(b) THEN (IF a.k = "nan" \/ b.k = "nan" THEN NaN ELSE Inf)
  ELSE IF b.n = 0 THEN (IF a.n = 0 THEN NaN ELSE Inf)
  ELSE IF b.n < 0 THEN Frac(0 - a.n * b.d, 0 - a.d * b.n)
  ELSE Frac(a.n * b.d, a.d * b.n)

Minus(a, b) ==
  IF ~Finite(a) \/ ~Finite(b) THEN (IF a.k = "nan" \/ b.k = "nan" THEN NaN ELSE Inf)
  ELSE Frac(a.n * b.d - b.n * a.d, a.d * b.d)

\* Equality of two cells as numbers.
SameNumber(a, b) ==
  IF Finite(a) /\ Finite(b) THEN a.n * b.d = b.n * a.d ELSE a.k = b.k

\* Series.shift(1, fill_value=0)
ShiftZeroFill(col) == [i \in DOMAIN col |-> IF i = 1 THEN Num(0) ELSE col[i - 1]]

\* Series.shift(1): the value of the row before, NaN on the first row.
Shift(col) == [i \in DOMAIN col |-> IF i = 1 THEN NaN ELSE col[i - 1]]

\* Series.pct_change(): data / data.shift(1) - 1
PctChange(col) == [i \in DOMAIN col |-> Minus(Div(col[i], Shift(col)[i]), Num(1))]

\* Series.diff(): data - data.shift(1)
Diff(col) == [i \in DOMAIN col |-> Minus(col[i], Shift(col)[i])]

\* Series.rolling(4).std(): min_periods is the window; values that are not
\* finite count as missing; the sample standard deviation (ddof = 1) of the
\* window is kept as the window itself with its divisor.
WINDOW == 4
DDOF == 1

\* Series.rolling(4, min_periods=1).std()
RollingStdMinPeriods(col) ==
  [i \in DOMAIN col |->
     IF \E j \in DOMAIN col : j > i - WINDOW /\ j <= i /\ Finite(col[j])
     THEN [k |-> "std", n |-> SubSeq(col, IF i < WINDOW THEN 1 ELSE i - WINDOW + 1, i),
           d |-> WINDOW - DDOF]
     ELSE NaN]

RollingStd(col) ==
  [i \in DOMAIN col |->
     IF i >= WINDOW /\ \A j \in (i - WINDOW + 1)..i : Finite(col[j])
     THEN [k |-> "std", n |-> SubSeq(col, i - WINDOW + 1, i), d |-> WINDOW - DDOF]
     ELSE NaN]

Column(df, name) == [i \in DOMAIN df |-> df[i][name]]
Numeric(col) == \A i \in DOMAIN col : IsNumber(col[i])

\* _price_features: columns date, value, return_1w, vol_4w.
PriceFeatures(prices0) ==
  LET prices == SortValues(prices0)
      value == Column(prices, "value")
      return_1w == PctChange(value)
      vol_4w == RollingStd(return_1w)
  IN  IF ~Numeric(value) THEN [ok |-> FALSE, err |-> "TypeError", df |-> NoFrame]
      ELSE [ok |-> TRUE, err |-> "",
            df |-> [i \in DOMAIN prices |->
                      [date |-> prices[i].date, value |-> value[i],
                       return_1w |-> return_1w[i], vol_4w |-> vol_4w[i]]]]

\* _supply_features: columns date, value, supply_delta.
SupplyFeatures(supply0) ==
  LET supply == SortValues(supply0)
      value == Column(supply, "value")
      delta == Diff(value)
  IN  IF ~Numeric(value) THEN [ok |-> FALSE, err |-> "TypeError", df |-> NoFrame]
      ELSE [ok |-> TRUE, err |-> "",
            df |-> [i \in DOMAIN supply |->
                      [date |-> supply[i].date, value |-> value[i],
                       supply_delta |-> delta[i]]]]

\* _storage_features: columns date, value, inventory_delta.
StorageFeatures(storage0) ==
  LET storage == SortValues(storage0)
      value == Column(storage, "value")
      delta == Diff(value)
  IN  IF ~Numeric(value) THEN [ok |-> FALSE, err |-> "TypeError", df |-> NoFrame]
      ELSE [ok |-> TRUE, err |-> "",
            df |-> [i \in DOMAIN storage |->
                      [date |-> storage[i].date, value |-> value[i],
                       inventory_delta |-> delta[i]]]]

Features(t, df) ==
  CASE t = "prices" -> PriceFeatures(df)
    [] t = "supply" -> SupplyFeatures(df)
    [] t = "storage" -> StorageFeatures(df)

(***************************************************************************)
(* The sink loader's reshaping.  _to_long_features melts the listed        *)
(* columns of a gold frame: one long row per listed column and input row,  *)
(* column by column in the order listed, rows in the order of the frame.   *)
(***************************************************************************)
\* The column lists main passes for each table.
FeatureCols(t) ==
  CASE t = "prices" -> <<"value", "return_1w", "vol_4w">>
    [] t = "supply" -> <<"value", "supply_delta">>
    [] t = "storage" -> <<"value", "inventory_delta">>

COMMODITY == "wti"

\* The column a long row's feature_value is taken from, and the input row.
MeltColumn(df, feature_cols, k) == feature_cols[((k - 1) \div Len(df)) + 1]
MeltRow(df, k) == ((k - 1) % Len(df)) + 1

ToLongFeatures(df, feature_cols) ==
  IF df # <<>> /\ \E j \in DOMAIN feature_cols : feature_cols[j] \notin DOMAIN df[1]
  THEN [ok |-> FALSE, err |-> "KeyError", df |-> NoFrame]
  ELSE [ok |-> TRUE, err |-> "",
        df |-> [k \in 1..(Len(df) * Len(feature_cols)) |->
                  [commodity |-> Name(COMMODITY),
                   week |-> df[MeltRow(df, k)].date,
                   feature_name |-> Name(MeltColumn(df, feature_cols, k)),
                   feature_value |-> df[MeltRow(df, k)][MeltColumn(df, feature_cols, k)]]]]

(***************************************************************************)
(* The state machine.                                                      *)
(***************************************************************************)
MaxRequests == 2    \* requests the API serves in one behaviour

Requests == 1..MaxRequests

\* A request that has not arrived: no session was made for it.
NoRequest == [pc |-> "waiting", route |-> "", opened |-> 0, closed |-> 0, status |-> 0]
NoRequests == [r \in Requests |-> NoRequest]

NoOp ==
  [name |-> "none", table |-> "", loc |-> "", ok |-> TRUE, err |-> "", path |-> NoPath,
   fmt |-> "", arg |-> <<>>, df |-> <<>>, sent |-> FALSE, tried |-> {},
   codec |-> TRUE, wrote |-> {}]

Init ==
  /\ clock = ClockStart
  /\ fs = [loc \in Locations |-> {}]
  /\ hist = [loc \in Locations |-> {}]
  /\ nwrites = [loc \in Locations |-> 0]
  /\ runs = 0
  /\ op = NoOp
  /\ resolved = [loc \in Locations |-> NoPath]
  /\ sessions = NoRequests

\* Time passes between two script runs.
Tick ==
  /\ clock < ClockStart + MaxTicks
  /\ clock' = clock + 1
  /\ UNCHANGED <<fs, hist, nwrites, runs, op, resolved, sessions>>

\* The snapshot a successful write produced, as the history keeps it.
Snapshot(w) == [id |-> w.path.id, ext |-> w.path.ext, data |-> w.df]

\* eia_prices.main / eia_supply.main / eia_storage.main: the key is read from
\* the environment and passed on; fetch, frame, write.
BronzeMain(t) ==
  /\ runs < MaxRuns
  /\ \E env \in EnvKeys, response \in Responses(t), parquetWorks \in BOOLEAN :
       LET loc == BronzeLoc(t)
           got == FetchSeries(Getenv(env), env, response)
           df == Load(t, got.series)
           w == WriteBronze(fs[loc], loc, df, clock, clock, parquetWorks)
       IN  IF ~got.ok
           THEN /\ op' = [NoOp EXCEPT !.name = "bronze_main", !.table = t, !.loc = loc,
                                      !.ok = FALSE,
                                      !.err = got.err, !.sent = got.sent]
                /\ UNCHANGED <<fs, hist, nwrites>>
           ELSE /\ fs' = [fs EXCEPT ![loc] = w.dir]
                /\ hist' = [hist EXCEPT ![loc] = IF w.ok THEN @ \cup {Snapshot(w)} ELSE @]
                /\ nwrites' = [nwrites EXCEPT ![loc] = IF w.ok THEN @ + 1 ELSE @]
                /\ op' = [name |-> "bronze_main", table |-> t, loc |-> loc,
                          ok |-> w.ok, err |-> w.err, arg |-> <<>>,
                          path |-> w.path, fmt |-> w.fmt, df |-> df, sent |-> got.sent,
                          tried |-> {t}, codec |-> parquetWorks,
                          wrote |-> IF w.ok THEN {t} ELSE {}]
  /\ runs' = runs + 1
  /\ UNCHANGED <<clock, resolved, sessions>>

\* The order in which every orchestrator handles the tables.
Order == <<"prices", "supply", "storage">>

(***************************************************************************)
(* silver_clean.main and gold_features.main: read the latest snapshot of   *)
(* the three upstream tables, transform the three frames, write the three  *)
(* results; nothing is caught, so the first call that raises ends the run. *)
(* failAt names the write whose to_parquet raises (0: none does).  The     *)
(* three writes of a run are taken to read the same second of the clock.   *)
(***************************************************************************)
\* Where a tier's orchestrator reads and writes, and what it applies.
Src(tier, t) == IF tier = "silver" THEN BronzeLoc(t) ELSE SilverLoc(t)
Dst(tier, t) == IF tier = "silver" THEN SilverLoc(t) ELSE GoldLoc(t)
Transform(tier, t, df) == IF tier = "silver" THEN AlignWeekly(df) ELSE Features(t, df)

\* An orchestrator that handles one table after the other: read, transform
\* and write the first, then the second, then the third.
RunTierInterleaved(tier, tree, now, failAt) ==
  LET read == [k \in 1..3 |-> ReadLatest(tree[Src(tier, Order[k])])]
      made == [k \in 1..3 |->
                 IF read[k].ok THEN Transform(tier, Order[k], read[k].df)
                 ELSE [ok |-> FALSE, err |-> read[k].err, df |-> NoFrame]]
      w == [k \in 1..3 |->
              WriteParquet(tree[Dst(tier, Order[k])], Dst(tier, Order[k]), made[k].df,
                           now, failAt = 0 \/ k < failAt)]
      good == {k \in 1..3 : made[k].ok /\ w[k].ok}
      done == IF 1 \notin good THEN 0 ELSE IF 2 \notin good THEN 1
              ELSE IF 3 \notin good THEN 2 ELSE 3
  IN  [tree |-> [loc \in DOMAIN tree |->
                   IF \E k \in 1..done : loc = Dst(tier, Order[k])
                   THEN w[CHOOSE k \in 1..done : loc = Dst(tier, Order[k])].dir
                   ELSE tree[loc]],
       ok |-> done = 3,
       err |-> IF done = 3 THEN ""
               ELSE IF ~made[done + 1].ok THEN made[done + 1].err ELSE w[done + 1].err,
       tried |-> {Order[k] : k \in 1..(IF done = 3 THEN 3 ELSE done + 1)},
       wrote |-> {Order[k] : k \in 1..done}, w |-> w]

RunTier(tier, tree, now, failAt) ==
  LET read == [k \in 1..3 |-> ReadLatest(tree[Src(tier, Order[k])])]
      made == [k \in 1..3 |->
                 IF read[k].ok THEN Transform(tier, Order[k], read[k].df)
                 ELSE [ok |-> FALSE, err |-> read[k].err, df |-> NoFrame]]
      badRead == {k \in 1..3 : ~read[k].ok}
      badMade == {k \in 1..3 : ~made[k].ok}
      done == IF failAt = 0 THEN 3 ELSE failAt - 1
      w == [k \in 1..3 |->
              WriteParquet(tree[Dst(tier, Order[k])], Dst(tier, Order[k]), made[k].df,
                           now, k <= done)]
  IN  IF badRead # {}
      THEN [tree |-> tree, ok |-> FALSE, err |-> read[MinOf(badRead)].err,
            tried |-> {}, wrote |-> {}, w |-> w]
      ELSE IF badMade # {}
      THEN [tree |-> tree, ok |-> FALSE, err |-> made[MinOf(badMade)].err,
            tried |-> {}, wrote |-> {}, w |-> w]
      ELSE [tree |-> [loc \in DOMAIN tree |->
                        IF \E k \in 1..done : loc = Dst(tier, Order[k])
                        THEN w[CHOOSE k \in 1..done : loc = Dst(tier, Order[k])].dir
                        ELSE tree[loc]],
            ok |-> failAt = 0,
            err |-> IF failAt = 0 THEN "" ELSE w[failAt].err,
            tried |-> {Order[k] : k \in 1..(IF failAt = 0 THEN 3 ELSE failAt)},
            wrote |-> {Order[k] : k \in 1..done}, w |-> w]

\* The effect of an orchestrator run r of a tier on the state.
Orchestrated(name, tier, r) ==
  /\ fs' = r.tree
  /\ hist' = [loc \in Locations |->
                IF \E t \in r.wrote : loc = Dst(tier, t)
                THEN hist[loc]
                       \cup {Snapshot(r.w[CHOOSE k \in 1..3 : loc = Dst(tier, Order[k])])}
                ELSE hist[loc]]
  /\ nwrites' = [loc \in Locations |->
                   IF \E t \in r.wrote : loc = Dst(tier, t)
                   THEN nwrites[loc] + 1 ELSE nwrites[loc]]
  /\ op' = [NoOp EXCEPT !.name = name, !.ok = r.ok, !.err = r.err, !.tried = r.tried,
                        !.codec = (r.tried = r.wrote), !.wrote = r.wrote]
  /\ runs' = runs + 1
  /\ UNCHANGED <<clock, resolved, sessions>>

SilverMain ==
  /\ runs < MaxRuns
  /\ \E failAt \in 0..3 :
       Orchestrated("silver_main", "silver", RunTier("silver", fs, clock, failAt))

GoldMain ==
  /\ runs < MaxRuns
  /\ \E failAt \in 0..3 :
       Orchestrated("gold_main", "gold", RunTier("gold", fs, clock, failAt))

\* notebooks/bronze_ingest.py: the module imports pipelines.bronzer, a package
\* the repository does not have, so the run ends with ModuleNotFoundError
\* before any ingestion script is called.
BronzeIngest ==
  /\ runs < MaxRuns
  /\ op' = [NoOp EXCEPT !.name = "bronze_ingest", !.ok = FALSE,
                        !.err = "ModuleNotFoundError"]
  /\ runs' = runs + 1
  /\ UNCHANGED <<clock, fs, hist, nwrites, resolved, sessions>>

\* The db_url environment variable: unset, empty or set.
DbUrls == {"unset", "", "url"}

\* gold_to_postgres.main.  Importing src.db.session builds the engine from
\* db_url and raises ValueError without it.  The first statement of main
\* calls Base.metadata.createall, an attribute MetaData does not have (its
\* method is create_all), so main raises AttributeError before it reads a
\* gold table: no run reaches the reads, the reshaping or the load.
SinkMain ==
  /\ runs < MaxRuns
  /\ \E db_url \in DbUrls :
       op' = [NoOp EXCEPT !.name = "sink_main", !.ok = FALSE,
                          !.err = IF db_url \in {"unset", ""}
                                  THEN "ValueError: db_url is required"
                                  ELSE "AttributeError"]
  /\ runs' = runs + 1
  /\ UNCHANGED <<clock, fs, hist, nwrites, resolved, sessions>>

Next ==
  \/ Tick
  \/ \E t \in Tables : BronzeMain(t)
  \/ BronzeIngest
  \/ SilverMain
  \/ GoldMain

Spec == Init /\ [][Next]_vars

(***************************************************************************)
(* The resolver and the readers on their own.  A table directory is an     *)
(* input: it holds the snapshots earlier writes left there, each written   *)
(* at an instant of its own, as a parquet or as a csv file.  One table     *)
(* location is populated; the others are empty or do not exist.            *)
(***************************************************************************)
MaxSnapshots == 4    \* instants at which a snapshot may have been written

Instants == ClockStart..(ClockStart + MaxSnapshots - 1)

\* The frame a bronze write dispatched at instant t would serialize.
FrameAt(t) ==
  LET s == CHOOSE x \in Series("supply") : TRUE
  IN  WriteBronze({}, "", Load("supply", s), t, t, TRUE).df

FileAt(t, ext) ==
  [id |-> Strftime(t), ext |-> ext,
   data |-> IF ext = "parquet" THEN ToParquet(FrameAt(t)) ELSE ToCsv(FrameAt(t))]

Presence == {"absent", "parquet", "csv"}

DirOf(present) == {FileAt(t, present[t]) : t \in {x \in Instants : present[x] # "absent"}}

InitResolve ==
  /\ clock = ClockStart + MaxSnapshots
  /\ \E at \in Locations, present \in [Instants -> Presence] :
       fs = [loc \in Locations |-> IF loc = at THEN DirOf(present) ELSE {}]
  /\ hist = fs
  /\ nwrites = [loc \in Locations |-> Cardinality(fs[loc])]
  /\ runs = 0
  /\ op = NoOp
  /\ resolved = [loc \in Locations |-> NoPath]
  /\ sessions = NoRequests

\* A call of _latest_file(table_dir).
Resolve(loc) ==
  LET latest == LatestFile(fs[loc])
  IN  /\ op' = [NoOp EXCEPT !.name = "latest_file", !.loc = loc, !.ok = latest.ok,
                            !.err = latest.err,
                            !.path = IF latest.ok
                                     THEN Path(loc, latest.file.id, latest.file.ext)
                                     ELSE NoPath]
      /\ resolved' = [resolved EXCEPT ![loc] = op'.path]
      /\ UNCHANGED <<clock, fs, hist, nwrites, runs, sessions>>

\* A call of a reader; the reader's exception, if any, reaches the caller.
Read(name, loc, t, r) ==
  /\ op' = [NoOp EXCEPT !.name = name, !.table = t, !.loc = loc, !.ok = r.ok,
                        !.err = r.err, !.df = r.df]
  /\ UNCHANGED <<clock, fs, hist, nwrites, runs, resolved, sessions>>

ReadBronzeCall(t) == Read("read_bronze", BronzeLoc(t), t, ReadBronze(fs, t))
ReadSilverCall(t) == Read("read_silver", SilverLoc(t), t, ReadSilver(fs, t))
ReadGoldCall(t) == Read("read_gold", SinkLoc(t), t, ReadGold(fs, t))

NextResolve ==
  \/ \E loc \in Locations : Resolve(loc)
  \/ \E t \in Tables : ReadBronzeCall(t)
  \/ \E t \in Tables : ReadSilverCall(t)
  \/ \E t \in Tables : ReadGoldCall(t)

SpecResolve == InitResolve /\ [][NextResolve]_vars

(***************************************************************************)
(* The transforms on their own: a frame is the input, a call applies the   *)
(* transform to it.                                                        *)
(***************************************************************************)
MaxRows == 3     \* rows of an input frame of _align_weekly
MaxWeek == 3     \* the input dates of _align_weekly lie in weeks 0..MaxWeek
MaxLen == 5      \* rows of an input frame of the feature transforms

\* Monday, Thursday, Friday and Saturday: before, on and after the anchor.
DaysOfWeek == {0, 3, FRIDAY, 5}
Days == {7 * w + k : w \in 0..MaxWeek, k \in DaysOfWeek}

\* A bronze frame with the given dates; row i carries the value 100 + i.
DatedFrame(dates) ==
  [i \in DOMAIN dates |->
     [date |-> Datetime(dates[i]), series_id |-> Name("PET.RWTC.D"), value |-> Num(100 + i)]]

AlignInputs == {DatedFrame(dates) : dates \in UNION {[1..n -> Days] : n \in 1..MaxRows}}

Quiet ==
  /\ clock = ClockStart
  /\ fs = [loc \in Locations |-> {}]
  /\ hist = [loc \in Locations |-> {}]
  /\ nwrites = [loc \in Locations |-> 0]
  /\ runs = 0
  /\ resolved = [loc \in Locations |-> NoPath]
  /\ sessions = NoRequests

InitAlign ==
  /\ Quiet
  /\ \E df \in AlignInputs : op = [NoOp EXCEPT !.name = "input", !.arg = df]

Apply(name, r) ==
  /\ op.name = "input"
  /\ op' = [op EXCEPT !.name = name, !.ok = r.ok, !.err = r.err, !.df = r.df]
  /\ UNCHANGED <<clock, fs, hist, nwrites, runs, resolved, sessions>>

AlignWeeklyCall == Apply("align_weekly", AlignWeekly(op.arg))

NextAlign == AlignWeeklyCall

SpecAlign == InitAlign /\ [][NextAlign]_vars

\* Weekly-aligned input of the feature transforms: one row per Friday, in
\* ascending or descending order of date, with numeric values.
Values == {0, 100, 110, 121}
FIRST_FRIDAY == FRIDAY

WeeklyFrame(values, descending) ==
  [i \in DOMAIN values |->
     LET j == IF descending THEN Len(values) + 1 - i ELSE i
     IN  [date |-> Datetime(FIRST_FRIDAY + 7 * (j - 1)), value |-> Num(values[j])]]

FeatureInputs ==
  {WeeklyFrame(values, descending) :
     values \in UNION {[1..n -> Values] : n \in 1..MaxLen}, descending \in BOOLEAN}

InitFeatures ==
  /\ Quiet
  /\ \E df \in FeatureInputs : op = [NoOp EXCEPT !.name = "input", !.arg = df]

PriceFeaturesCall == Apply("price_features", PriceFeatures(op.arg))
SupplyFeaturesCall == Apply("supply_features", SupplyFeatures(op.arg))
StorageFeaturesCall == Apply("storage_features", StorageFeatures(op.arg))

NextFeatures ==
  \/ PriceFeaturesCall
  \/ SupplyFeaturesCall
  \/ StorageFeaturesCall

SpecFeatures == InitFeatures /\ [][NextFeatures]_vars

(***************************************************************************)
(* The tiers downstream of bronze.  The bronze tier is the input: each     *)
(* bronze table holds no snapshot or the one snapshot an ingestion run     *)
(* wrote from one of the provider's payloads; the silver, gold and sink    *)
(* scripts run in any order.                                               *)
(***************************************************************************)
\* The bronze directory an ingestion of series s left behind.
BronzeDir(t, s) ==
  WriteBronze({}, BronzeLoc(t), Load(t, s), ClockStart, ClockStart, TRUE).dir

BronzeDirs(t) == {{}} \cup {BronzeDir(t, s) : s \in Series(t)}

InitChain ==
  /\ clock = ClockStart
  /\ \E dirs \in [Tables -> UNION {BronzeDirs(t) : t \in Tables}] :
       /\ \A t \in Tables : dirs[t] \in BronzeDirs(t)
       /\ fs = [loc \in Locations |->
                  IF \E t \in Tables : loc = BronzeLoc(t)
                  THEN dirs[CHOOSE t \in Tables : loc = BronzeLoc(t)]
                  ELSE {}]
  /\ hist = fs
  /\ nwrites = [loc \in Locations |-> Cardinality(fs[loc])]
  /\ runs = 0
  /\ op = NoOp
  /\ resolved = [loc \in Locations |-> NoPath]
  /\ sessions = NoRequests

NextChain ==
  \/ Tick
  \/ SilverMain
  \/ GoldMain
  \/ SinkMain

SpecChain == InitChain /\ [][NextChain]_vars

(***************************************************************************)
(* The sink loader's reshaping on its own: the input is a gold frame, the  *)
(* output of a feature transform, and the call is the one main makes for   *)
(* that table.                                                             *)
(***************************************************************************)
GoldFrames(t) == {Features(t, df).df : df \in FeatureInputs}

InitSink ==
  /\ Quiet
  /\ \E t \in Tables :
       \E df \in GoldFrames(t) : op = [NoOp EXCEPT !.name = "input", !.table = t, !.arg = df]

ToLongFeaturesCall ==
  Apply("to_long_features", ToLongFeatures(op.arg, FeatureCols(op.table)))

NextSink == ToLongFeaturesCall

SpecSink == InitSink /\ [][NextSink]_vars

(***************************************************************************)
(* The identifier format on its own: two instants are the input, the call  *)
(* formats both.  The instants lie within MaxSpan seconds of the places    *)
(* where a field of the identifier rolls over: the tens of seconds, the    *)
(* minute, the hour, the day, the month (after 31, 29 and 28 days) and the *)
(* year.                                                                   *)
(***************************************************************************)
MaxSpan == 2

SECONDS_PER_DAY == 24 * 3600

Rollovers ==
  {10, 60, 3600} \cup {SECONDS_PER_DAY * d : d \in {1, 31, 31 + 29, 366, 366 + 31 + 28}}

IdentInstants == {b + k : b \in Rollovers, k \in (0 - MaxSpan)..(MaxSpan - 1)}

InitIdent ==
  /\ Quiet
  /\ \E t1 \in IdentInstants, t2 \in IdentInstants :
       op = [NoOp EXCEPT !.name = "input", !.arg = <<t1, t2>>]

StrftimeCall ==
  Apply("strftime",
        [ok |-> TRUE, err |-> "", df |-> <<Strftime(op.arg[1]), Strftime(op.arg[2])>>])

NextIdent == StrftimeCall

SpecIdent == InitIdent /\ [][NextIdent]_vars

(***************************************************************************)
(* The source adapter and the ingestion scripts: fetch_series called with  *)
(* any api_key argument in any environment, and the three ingestion mains. *)
(***************************************************************************)
MaxIngests == 2     \* ingestion runs in one behaviour

\* Earlier script runs failed and left the tree empty; MaxIngests runs remain.
InitFetch ==
  /\ clock = ClockStart
  /\ fs = [loc \in Locations |-> {}]
  /\ hist = [loc \in Locations |-> {}]
  /\ nwrites = [loc \in Locations |-> 0]
  /\ runs = MaxRuns - MaxIngests
  /\ op = NoOp
  /\ resolved = [loc \in Locations |-> NoPath]
  /\ sessions = NoRequests

FetchSeriesCall(t) ==
  /\ \E api_key \in ApiKeys, env \in EnvKeys, response \in Responses(t) :
       LET got == FetchSeries(api_key, env, response)
       IN  op' = [NoOp EXCEPT !.name = "fetch_series", !.table = t,
                              !.arg = <<api_key, env, response>>, !.ok = got.ok,
                              !.err = got.err, !.sent = got.sent,
                              !.df = got.series.data]
  /\ UNCHANGED <<clock, fs, hist, nwrites, runs, resolved, sessions>>

\* One writer and the resolver: ingestion runs write the bronze tables as the
\* clock advances, and _latest_file is called on them in between.
NextWrites ==
  \/ Tick
  \/ \E t \in Tables : BronzeMain(t)
  \/ \E t \in Tables : Resolve(BronzeLoc(t))

SpecWrites == InitFetch /\ [][NextWrites]_vars

NextFetch ==
  \/ \E t \in Tables : FetchSeriesCall(t)
  \/ \E t \in Tables : BronzeMain(t)

SpecFetch == InitFetch /\ [][NextFetch]_vars

(***************************************************************************)
(* The read API.  A request for a route that depends on get_session gets a *)
(* session of its own: get_session makes it and yields it, the route       *)
(* handler runs with it and returns or raises, and the framework resumes   *)
(* the generator, whose finally clause closes the session.  Requests are   *)
(* served concurrently, each in these steps.                               *)
(***************************************************************************)
Routes == {"/health", "/regime/{commodity}", "/signals/{commodity}", "/forecasts/{commodity}"}

\* What the handler's query meets: a row, no row, or a failure of the database.
QueryResults == {"row", "none", "error"}

Serving(r, next) ==
  /\ sessions' = [sessions EXCEPT ![r] = next]
  /\ UNCHANGED <<clock, fs, hist, nwrites, runs, op, resolved>>

\* A request arrives for one of the routes.
Arrive(r) ==
  /\ sessions[r].pc = "waiting"
  /\ \E route \in Routes : Serving(r, [sessions[r] EXCEPT !.pc = "arrived", !.route = route])

\* health(): no dependency, the handler returns.
Health(r) ==
  /\ sessions[r].pc = "arrived"
  /\ sessions[r].route = "/health"
  /\ Serving(r, [sessions[r] EXCEPT !.pc = "done", !.status = 200])

\* get_session up to its yield: SessionLocal() makes the session; if it
\* raises, no session exists and the request fails.
OpenSession(r) ==
  /\ sessions[r].pc = "arrived"
  /\ sessions[r].route # "/health"
  /\ \E made \in BOOLEAN :
       Serving(r, IF made
                  THEN [sessions[r] EXCEPT !.pc = "yielded", !.opened = @ + 1]
                  ELSE [sessions[r] EXCEPT !.pc = "done", !.status = 500])

\* get_regime / get_signals / get_forecast: the query is executed; without a
\* row the handler raises HTTPException(404), with one it returns.
Handle(r) ==
  /\ sessions[r].pc = "yielded"
  /\ \E result \in QueryResults :
       Serving(r, CASE result = "row" ->
                         [sessions[r] EXCEPT !.pc = "returned", !.status = 200]
                    [] result = "none" ->
                         [sessions[r] EXCEPT !.pc = "raised", !.status = 404]
                    [] result = "error" ->
                         [sessions[r] EXCEPT !.pc = "raised", !.status = 500])

\* get_session without try/finally: the statement after the yield runs only
\* when the generator is resumed, not when the handler's exception is thrown
\* into it.
CloseSessionOnReturn(r) ==
  /\ sessions[r].pc \in {"returned", "raised"}
  /\ Serving(r, IF sessions[r].pc = "returned"
                THEN [sessions[r] EXCEPT !.pc = "done", !.closed = @ + 1]
                ELSE [sessions[r] EXCEPT !.pc = "done"])

\* get_session after its yield: the finally clause calls session.close(),
\* whether the generator is resumed or the handler's exception is thrown into it.
CloseSession(r) ==
  /\ sessions[r].pc \in {"returned", "raised"}
  /\ Serving(r, [sessions[r] EXCEPT !.pc = "done", !.closed = @ + 1])

NextApi ==
  \/ \E r \in Requests : Arrive(r)
  \/ \E r \in Requests : Health(r)
  \/ \E r \in Requests : OpenSession(r)
  \/ \E r \in Requests : Handle(r)
  \/ \E r \in Requests : CloseSession(r)

InitApi ==
  /\ Quiet
  /\ op = NoOp

SpecApi == InitApi /\ [][NextApi]_vars

\* The server runs every request it has started to its end: a handler that
\* holds a session returns or raises, and the generator is then resumed.
SpecApiFair ==
  /\ SpecApi
  /\ \A r \in Requests : WF_vars(Handle(r)) /\ WF_vars(CloseSession(r))

(***************************************************************************)
(* Properties of the writer, the resolver and the orchestrators.           *)
(***************************************************************************)
FileExists(tree, path) ==
  \E f \in tree[path.loc] : f.id = path.id /\ f.ext = path.ext

\* The instant at which the write of a snapshot was dispatched, as its rows record it.
WrittenAt(f) == f.data[1].ingested_at.n

\* A frame without its ingested_at audit column.
DropAudit(df) ==
  [i \in DOMAIN df |-> [col \in DOMAIN df[i] \ {"ingested_at"} |-> df[i][col]]]

\* C1: a write never modifies or removes a snapshot written before: every table
\* directory holds every snapshot ever written to it, with the content it was
\* written with, and after N writes it holds N snapshots.
C1_AppendOnly ==
  \A loc \in Locations :
    /\ hist[loc] \subseteq fs[loc]
    /\ Cardinality(fs[loc]) = nwrites[loc]

Readers == {"read_bronze", "read_silver", "read_gold"}

NoSnapshots(dir) == Glob(dir, "parquet") = {} /\ Glob(dir, "csv") = {}

\* C3: when a table location has no parquet and no csv snapshot, _latest_file
\* raises FileNotFoundError, and so does every reader called on that location:
\* no reader returns a table, empty or not.
C3_NotFoundPropagates ==
  (op.name \in Readers \cup {"latest_file"} /\ NoSnapshots(fs[op.loc])) =>
    /\ ~op.ok
    /\ op.err = "FileNotFoundError"
    /\ op.df = NoFrame
    /\ op.path = NoPath

C3_Witness ==
  /\ op.name = "read_gold"
  /\ NoSnapshots(fs[op.loc])
  /\ op.err = "FileNotFoundError"

\* C4: every call of write_bronze returns: with the path of a parquet file and
\* "parquet" when the parquet write works, with the path of a csv file and "csv"
\* when it does not; a file of the returned format exists at the returned path.
C4_FallbackReturns ==
  (op.name = "bronze_main" /\ op.tried # {}) =>
    /\ op.ok
    /\ op.fmt = (IF op.codec THEN "parquet" ELSE "csv")
    /\ op.path.ext = op.fmt
    /\ FileExists(fs, op.path)

\* C5: in a run of the silver or gold orchestrator in which no write fails, every
\* table whose own upstream snapshot can be read and transformed gets its new
\* snapshot, whatever happens to the other tables.
Upstream(name, t) ==
  IF name = "silver_main" THEN ReadBronze(fs, t) ELSE ReadSilver(fs, t)
OwnPathWorks(name, t) ==
  /\ Upstream(name, t).ok
  /\ IF name = "silver_main" THEN AlignWeekly(Upstream(name, t).df).ok
     ELSE Features(t, Upstream(name, t).df).ok

C5_TablesIndependent ==
  (op.name \in {"silver_main", "gold_main"} /\ op.codec) =>
    \A t \in Tables : OwnPathWorks(op.name, t) => t \in op.wrote

\* C6: after write_bronze was called with a frame, in either format, reading the
\* latest snapshot of the table back gives the rows that were written, apart from
\* the ingested_at column.
C6_RoundTrip ==
  (op.name = "bronze_main" /\ op.tried # {}) =>
    /\ ReadBronze(fs, op.table).ok
    /\ DropAudit(ReadBronze(fs, op.table).df) = op.df

(***************************************************************************)
(* Properties of the alignment transform.                                  *)
(***************************************************************************)
\* The first Friday on or after day x.
IsFridayOnOrAfter(f, x) == Weekday(f) = FRIDAY /\ x <= f /\ f <= x + 6

\* C7: for every non-empty input with parseable dates _align_weekly returns a
\* frame with one row per week from the week of the first date to the week of
\* the last date: every date is a Friday, consecutive dates are 7 days apart, the
\* first row is the Friday of the first observation's week and the last row the
\* Friday of the last observation's week.
C7_OneRowPerWeek ==
  (op.name = "align_weekly" /\ op.arg # <<>>) =>
    /\ op.ok
    /\ Len(op.df) >= 1
    /\ \A j \in DOMAIN op.df :
         op.df[j].date.k = "datetime" /\ Weekday(op.df[j].date.n) = FRIDAY
    /\ \A j \in 1..(Len(op.df) - 1) : op.df[j + 1].date.n = op.df[j].date.n + 7
    /\ IsFridayOnOrAfter(op.df[1].date.n, MinOf(Dates(op.arg)))
    /\ IsFridayOnOrAfter(op.df[Len(op.df)].date.n, MaxOf(Dates(op.arg)))

\* The input rows dated on or before a day.
OnOrBefore(df, day) == {i \in DOMAIN df : df[i].date.n <= day}

\* C8: every row of the output of _align_weekly carries, in every column but the
\* date, the values of the last input row dated on or before that row's Friday:
\* such a row exists, and no value comes from a later row or from anywhere else.
C8_ForwardFill ==
  (op.name = "align_weekly" /\ op.ok) =>
    \A j \in DOMAIN op.df :
      LET seen == OnOrBefore(op.arg, op.df[j].date.n)
      IN  /\ seen # {}
          /\ \E i \in seen :
               /\ \A h \in seen : op.arg[h].date.n <= op.arg[i].date.n
               /\ \A col \in DOMAIN op.arg[i] \ {"date"} : op.df[j][col] = op.arg[i][col]

\* A gap of two weeks: three consecutive weekly rows repeat one observation, no
\* input row is dated in the second and third of these weeks, and the next row
\* carries a newer observation.
C8_Witness ==
  /\ op.name = "align_weekly"
  /\ op.ok
  /\ \E j \in DOMAIN op.df :
       /\ j + 3 <= Len(op.df)
       /\ op.df[j + 1].value = op.df[j].value
       /\ op.df[j + 2].value = op.df[j].value
       /\ op.df[j + 3].value # op.df[j].value
       /\ OnOrBefore(op.arg, op.df[j + 2].date.n) = OnOrBefore(op.arg, op.df[j].date.n)

(***************************************************************************)
(* Properties of the feature transforms.                                   *)
(***************************************************************************)
FeatureCalls == {"price_features", "supply_features", "storage_features"}

DerivedColumn(name) ==
  CASE name = "price_features" -> "return_1w"
    [] name = "supply_features" -> "supply_delta"
    [] name = "storage_features" -> "inventory_delta"

\* C9: the output of a feature transform is in ascending order of date with the
\* values of the input; its first-order column is NaN on the first row and on
\* every later row the change from the row before: (v[i] - v[i-1]) / v[i-1] for
\* return_1w (a float that is not finite when v[i-1] is 0), v[i] - v[i-1] for the
\* deltas.
C9_FirstOrderColumns ==
  (op.name \in FeatureCalls /\ op.ok) =>
    LET out == op.df
        col == DerivedColumn(op.name)
    IN  /\ Len(out) = Len(op.arg)
        /\ \A i \in DOMAIN out :
             \E h \in DOMAIN op.arg :
               op.arg[h].date = out[i].date /\ op.arg[h].value = out[i].value
        /\ \A i \in 1..(Len(out) - 1) : out[i].date.n < out[i + 1].date.n
        /\ out[1][col] = NaN
        /\ \A i \in 2..Len(out) :
             LET now == out[i].value.n
                 before == out[i - 1].value.n
             IN  IF op.name = "price_features"
                 THEN IF before = 0 THEN ~Finite(out[i][col])
                      ELSE /\ Finite(out[i][col])
                           /\ SameNumber(out[i][col], Frac(now - before, before))
                 ELSE /\ Finite(out[i][col])
                      /\ SameNumber(out[i][col], Num(now - before))

\* Prices 100, 110, 121 give return_1w NaN, 0.10, 0.10.
C9_Witness ==
  /\ op.name = "price_features"
  /\ op.ok
  /\ Column(op.df, "value") = <<Num(100), Num(110), Num(121)>>
  /\ op.df[1].return_1w = NaN
  /\ SameNumber(op.df[2].return_1w, Frac(1, 10))
  /\ SameNumber(op.df[3].return_1w, Frac(1, 10))

\* C10: vol_4w of a row is a number exactly when the row and the three rows
\* before it all have a return_1w that is a finite number, and NaN otherwise; it
\* is NaN on the first three rows and on every row of an input of fewer than
\* five prices.
C10_Vol4wDefined ==
  (op.name = "price_features" /\ op.ok) =>
    LET out == op.df
    IN  /\ \A i \in DOMAIN out :
             /\ out[i].vol_4w # NaN <=>
                  (i >= 4 /\ \A j \in (i - 3)..i : Finite(out[j].return_1w))
             /\ out[i].vol_4w # NaN => out[i].vol_4w.k = "std"
        /\ \A i \in DOMAIN out : i <= 3 => out[i].vol_4w = NaN
        /\ Len(out) < 5 => \A i \in DOMAIN out : out[i].vol_4w = NaN

C10_Witness ==
  /\ op.name = "price_features"
  /\ op.ok
  /\ Len(op.df) = 5
  /\ op.df[4].vol_4w = NaN
  /\ op.df[5].vol_4w.k = "std"

(***************************************************************************)
(* Properties of the tiers downstream of bronze.                           *)
(***************************************************************************)
\* The columns a feature transform adds to its input.
AddedColumns(t) ==
  CASE t = "prices" -> {"return_1w", "vol_4w"}
    [] t = "supply" -> {"supply_delta"}
    [] t = "storage" -> {"inventory_delta"}

\* C11: the long rows the sink loader makes from a gold frame number the weeks
\* of the frame times the columns the feature transform added (two for prices,
\* one for supply, one for storage), and each long row has the columns
\* commodity, week, feature_name, feature_value with the constant commodity.
C11_LongRowCount ==
  (op.name = "to_long_features") =>
    /\ op.ok
    /\ Len(op.df) = Len(op.arg) * Cardinality(AddedColumns(op.table))
    /\ \A k \in DOMAIN op.df :
         /\ DOMAIN op.df[k] = {"commodity", "week", "feature_name", "feature_value"}
         /\ op.df[k].commodity = Name(COMMODITY)

Tiers == {"silver", "gold"}

\* C12: when an orchestrator has written a table twice while the table's
\* upstream snapshot stayed the same, the table holds two snapshots with two
\* identifiers and the same rows, and the first of them is still there.
C12_RerunAppends ==
  \A tier \in Tiers, t \in Tables :
    (nwrites[Dst(tier, t)] = 2 /\ Cardinality(fs[Src(tier, t)]) = 1) =>
      /\ Cardinality(fs[Dst(tier, t)]) = 2
      /\ hist[Dst(tier, t)] \subseteq fs[Dst(tier, t)]
      /\ \A f, g \in fs[Dst(tier, t)] : f.data = g.data

\* C13: a silver run that succeeded left, for each table, the alignment of the
\* latest bronze snapshot as the latest silver snapshot; a gold run that
\* succeeded left the features of the latest silver snapshot as the latest gold
\* snapshot; and a sink run with a configured database, made when the gold
\* orchestrator has written all three tables, succeeds and resolves, for each table, the location the gold
\* orchestrator writes, reading the latest snapshot there.
C13_TierBoundaries ==
  /\ (op.name = "silver_main" /\ op.ok) =>
       \A t \in Tables :
         ReadLatest(fs[SilverLoc(t)]).df = AlignWeekly(ReadBronze(fs, t).df).df
  /\ (op.name = "gold_main" /\ op.ok) =>
       \A t \in Tables :
         ReadLatest(fs[GoldLoc(t)]).df = Features(t, ReadSilver(fs, t).df).df
  /\ (/\ op.name = "sink_main"
      /\ op.err # "ValueError: db_url is required"
      /\ \A t \in Tables : fs[GoldLoc(t)] # {}) =>
       /\ op.ok
       /\ \A t \in Tables :
            /\ SinkLoc(t) = GoldLoc(t)
            /\ ReadGold(fs, t).ok
            /\ ReadGold(fs, t).df = ReadLatest(fs[GoldLoc(t)]).df

\* The value cells of the provider's payloads for a table.
SourceValues(t) == UNION {{s.data[i][2] : i \in DOMAIN s.data} : s \in Series(t)}

\* C17: every bronze snapshot holds the values as the provider gave them, a str
\* as that str; and every silver snapshot holds numbers: a bronze value that is
\* a numeric str is a number in the aligned rows silver_clean writes.
C17_SilverNumeric ==
  /\ \A t \in Tables : \A f \in fs[BronzeLoc(t)] : \A i \in DOMAIN f.data :
       f.data[i].value \in SourceValues(t)
  /\ \A t \in Tables : \A f \in fs[SilverLoc(t)] : \A i \in DOMAIN f.data :
       f.data[i].value.k = "num"

OrchestratorOf(tier) == IF tier = "silver" THEN "silver_main" ELSE "gold_main"

\* C20: a run of the silver or gold orchestrator that starts when one of its
\* three upstream tables has no snapshot ends with FileNotFoundError, writes
\* nothing and leaves every table directory of every tier as it was.
C20_NotFoundWritesNothing ==
  [][\A tier \in Tiers :
       (/\ op'.name = OrchestratorOf(tier)
        /\ runs' = runs + 1
        /\ \E t \in Tables : NoSnapshots(fs[Src(tier, t)])) =>
         /\ fs' = fs
         /\ nwrites' = nwrites
         /\ op'.wrote = {}
         /\ op'.err = "FileNotFoundError"]_vars

\* A silver run found the bronze prices but not another bronze table, and no
\* silver table has a snapshot.
C20_Witness ==
  /\ op.name = "silver_main"
  /\ op.err = "FileNotFoundError"
  /\ fs[BronzeLoc("prices")] # {}
  /\ \A t \in Tables : fs[SilverLoc(t)] = {}

(***************************************************************************)
(* Properties of the source adapter.                                       *)
(***************************************************************************)
MissingCredential == "ValueError: EIA_API_KEY is required"
NoData == "ValueError: No series data returned"

\* No credential: the argument is None or empty and the variable unset or empty.
NoCredential(api_key, env) == api_key \in {"None", ""} /\ env \in {"unset", ""}

\* A credential reaches the request: a key as the argument, or the default
\* argument and a key in the environment.
HasCredential(api_key, env) == api_key = "key" \/ (api_key = "None" /\ env = "key")

\* C14: fetch_series called without a credential raises the missing-credential
\* error and sends no request; called with a credential, it raises the no-data
\* error when the provider's answer holds an empty list of series; and an
\* ingestion run that ends with either error writes no snapshot.
C14_FetchErrors ==
  [][/\ (op'.name = "fetch_series" /\ NoCredential(op'.arg[1], op'.arg[2])) =>
          ~op'.ok /\ op'.err = MissingCredential /\ ~op'.sent
     /\ (/\ op'.name = "fetch_series"
         /\ HasCredential(op'.arg[1], op'.arg[2])
         /\ ~op'.arg[3].fault
         /\ op'.arg[3].series = <<>>) =>
          ~op'.ok /\ op'.err = NoData /\ op'.sent
     /\ (op'.name = "bronze_main" /\ runs' = runs + 1
           /\ op'.err \in {MissingCredential, NoData}) =>
          fs' = fs /\ nwrites' = nwrites /\ op'.path = NoPath]_vars

\* fetch_series was called with the default argument in an environment without
\* the variable: it raised before any request.
C14_Witness ==
  /\ op.name = "fetch_series"
  /\ op.arg[1] = "None"
  /\ op.arg[2] = "unset"
  /\ op.err = MissingCredential
  /\ ~op.sent

(***************************************************************************)
(* Properties of the resolver and of the identifiers.                      *)
(***************************************************************************)
WithSuffix(dir, ext) == {f \in dir : f.ext = ext}

\* C15: for a directory with at least one snapshot, _latest_file returns a
\* parquet snapshot if the directory holds one and a csv snapshot otherwise,
\* and among the snapshots of that format the one whose identifier is the
\* greatest in string order; the snapshots of the other format play no part.
C15_ParquetFirst ==
  (op.name = "latest_file" /\ fs[op.loc] # {}) =>
    LET fmt == IF WithSuffix(fs[op.loc], "parquet") # {} THEN "parquet" ELSE "csv"
    IN  /\ op.ok
        /\ op.path.ext = fmt
        /\ \E f \in WithSuffix(fs[op.loc], fmt) :
             /\ f.id = op.path.id
             /\ \A g \in WithSuffix(fs[op.loc], fmt) : g.id = f.id \/ StrLess(g.id, f.id)

\* The directory holds a csv snapshot with a greater identifier than any
\* parquet snapshot, and the resolver returned a parquet snapshot.
C15_Witness ==
  /\ op.name = "latest_file"
  /\ op.path.ext = "parquet"
  /\ \E c \in WithSuffix(fs[op.loc], "csv") :
       \A f \in WithSuffix(fs[op.loc], "parquet") : StrLess(f.id, c.id)

\* C16: the identifiers of two instants have the same width, the 16 characters
\* of YYYYMMDDTHHMMSSZ; the identifier of the earlier instant is the smaller in
\* string order, and one instant has one identifier.
C16_OrderPreserving ==
  (op.name = "strftime") =>
    /\ Len(op.df[1]) = 16
    /\ Len(op.df[2]) = 16
    /\ op.arg[1] < op.arg[2] => StrLess(op.df[1], op.df[2])
    /\ op.arg[1] = op.arg[2] => op.df[1] = op.df[2]

\* The last second of a day and the first of the next.
C16_Witness ==
  /\ op.name = "strftime"
  /\ op.arg[1] = SECONDS_PER_DAY - 1
  /\ op.arg[2] = SECONDS_PER_DAY
  /\ StrLess(op.df[1], op.df[2])

\* C19: when _latest_file is called on a table on which its last call returned
\* a snapshot, it returns a snapshot again, and one whose identifier is the
\* same as or greater than that of the snapshot returned before.
C19_NeverBackwards ==
  [][\A loc \in Locations :
       (op'.name = "latest_file" /\ op'.loc = loc /\ op' # op /\ resolved[loc] # NoPath) =>
         /\ op'.ok
         /\ \/ op'.path.id = resolved[loc].id
            \/ StrLess(resolved[loc].id, op'.path.id)]_vars

\* The resolver returned the newer of two snapshots of a table.
C19_Witness ==
  /\ op.name = "latest_file"
  /\ op.ok
  /\ resolved[op.loc] = op.path
  /\ Cardinality(fs[op.loc]) = 2
  /\ \E f \in fs[op.loc] : StrLess(f.id, op.path.id)

(***************************************************************************)
(* Properties of the read API.                                             *)
(***************************************************************************)
\* C18: a session made by get_session for a request is closed, and closed once:
\* no session is closed twice or without having been made, a request that has
\* finished has no open session, and every session made is eventually closed,
\* whether the handler returned or raised.
C18_SessionClosed ==
  /\ [](\A r \in Requests :
          /\ sessions[r].closed <= sessions[r].opened
          /\ sessions[r].opened <= 1
          /\ sessions[r].pc = "done" => sessions[r].closed = sessions[r].opened)
  /\ \A r \in Requests : (sessions[r].opened = 1) ~> (sessions[r].closed = 1)

\* A request that ended with 404 while another was still holding its session.
C18_Witness ==
  \E r, q \in Requests :
    /\ sessions[r].pc = "done"
    /\ sessions[r].status = 404
    /\ sessions[r].opened = 1
    /\ sessions[r].closed = 1
    /\ sessions[q].pc = "yielded"

====
